---------------------------- MODULE Spec2Model ----------------------------
(***************************************************************************)
(* Model of the download job manager of Snakee (src/downloader.py,        *)
(* DownloadManager / DownloadJob) together with the queue actions of the   *)
(* GUI that drive it (src/app.py: start, stop, cancel, retry).             *)
(*                                                                         *)
(* Threads.  The GUI runs every Manager call on the single Tk thread, so   *)
(* the calls are sequential among themselves (one program counter, uipc).  *)
(* Each worker thread runs _worker_loop.  A step of the model is one read  *)
(* or one write of a shared field of a job (or one queue operation), so    *)
(* the check-then-act sequences of the code interleave as they can under   *)
(* the interpreter's thread switching.                                     *)
(*                                                                         *)
(* The extraction collaborator (yt-dlp) is the environment: a call         *)
(* delivers at most MaxTicks progress callbacks and then returns or raises *)
(* a message; which, is a nondeterministic choice.                         *)
(***************************************************************************)
EXTENDS Integers, Sequences, FiniteSets, TLC

(* ------------------------------ bounds -------------------------------- *)

\* largest concurrent_downloads / retries value an added job carries
MaxConc == 2
MaxRetriesOpt == 1
\* most progress callbacks the collaborator delivers in one call
MaxTicks == 1
\* most cancel_job calls and most retry actions the user makes
MaxCancels == 1
MaxRetryActions == 1
\* most jobs added, and the threads besides the GUI thread that add them
MaxJobs == 2
NumAdders == 2
\* largest retries value of a job whose backoff delays are followed
MaxBackoffRetries == 7
\* threads that call start() at the same time
NumStarters == 2

(* --------------------------- representation --------------------------- *)

\* job.progress is a float; it is held in fixed point, Unit steps per percent
Unit == 10
Full == 100 * Unit

Max(a, b) == IF a >= b THEN a ELSE b
Min(a, b) == IF a <= b THEN a ELSE b

\* Failure messages of the collaborator, by the substrings the code looks for.
\* "fmt": mentions "requested format"; "blk": matches _is_block_error;
\* "fmt_blk": both; "other": neither; "Cancelled": raised by _progress_hook
\* or by the retry loop; "TypeError": raised by a post-success step.
Msgs == {"fmt", "blk", "fmt_blk", "other"}

MentionsRequestedFormat(m) == m \in {"fmt", "fmt_blk"}

_is_block_error(m) == m \in {"blk", "fmt_blk"}

\* The cookies advice stored for a block error (one text per cookies_file case)
BlockAdvice(cookies) == IF cookies # "" THEN "advice_cookies_file" ELSE "advice_no_cookies"

\* (a variant without the "+ 1")
MaxAttemptsNoPlusOne(retries) == Max(1, retries)

\* _run_job: max_attempts = max(1, int(opts.retries) + 1)
max_attempts(retries) == Max(1, retries + 1)

\* Seconds are held in fixed point, Tenth steps per second
Tenth == 10

\* random.uniform(0.0, 1.0) is 0.0 + 1.0 * random.random(), a value in [0, 1)
Jitters == {0, 5, Tenth - 1}

RECURSIVE Pow2(_)
\* 2.0 ** e for an integer e >= 0 (exact in a float while e < 1024)
Pow2(e) == IF e <= 0 THEN 1 ELSE 2 * Pow2(e - 1)

\* The base of the backoff delay before the attempt after 'attempt'
BackoffBase(attempt) == Pow2(attempt - 1) * Tenth

\* (a variant without the cap)
BackoffDelayNoCap(attempt, jitter) == BackoffBase(attempt) + jitter

\* _run_job: delay = min(60.0, (2.0 ** (attempt - 1)) + random.uniform(0.0, 1.0))
BackoffDelay(attempt, jitter) == Min(60 * Tenth, BackoffBase(attempt) + jitter)

\* (a variant without the clamp)
ClampNone(x) == x

\* max(0.0, min(100.0, x))
Clamp(x) == Max(0, Min(Full, x))

\* (a variant that counts the current playlist item as complete)
ProgressDownloadingItemDone(pct, pi, pc) ==
    IF pc > 0 /\ pi > 0
    THEN Clamp(((pi * Full) + pct) \div pc)
    ELSE Clamp(pct)

\* _progress_hook, status "downloading": pct in fixed point, pi/pc the playlist
\* index and count (0 when absent)
ProgressDownloading(pct, pi, pc) ==
    IF pc > 0 /\ pi > 0
    THEN Clamp((((pi - 1) * Full) + pct) \div pc)
    ELSE Clamp(pct)

\* _progress_hook, status "finished"
ProgressFinished(pi, pc) ==
    IF pc > 0 /\ pi > 0 THEN Clamp((pi * Full) \div pc) ELSE Full

\* The callbacks the collaborator delivers in this model
Ticks ==
    { [status |-> "downloading", pct |-> 50 * Unit, pi |-> 0, pc |-> 0],
      [status |-> "finished",    pct |-> 0,         pi |-> 0, pc |-> 0] }

\* _progress_hook: the item percent of a "downloading" callback.  parsed:
\* float() accepts _percent_str (then v, in fixed point, is its value); else
\* downloaded_bytes / total_bytes * 100 when total is a number > 0 (total = 0
\* stands for absent), else 0.
HookPercent(parsed, v, downloaded, total) ==
    IF parsed THEN v
    ELSE IF total > 0 THEN (downloaded * Full) \div total
    ELSE 0

\* Callbacks with every kind of report: percent below 0, inside and above
\* 100, an unparseable percent with byte counts (absent, partial, more than
\* the total), playlist index and count absent (0), consistent, and index
\* above count
PlaylistTicks ==
    { [status |-> st, pct |-> HookPercent(pr[1], pr[2], by[1], by[2]), pi |-> i, pc |-> n] :
        st \in {"downloading", "finished"},
        pr \in {<<TRUE, -10 * Unit>>, <<TRUE, 50 * Unit>>, <<TRUE, 150 * Unit>>, <<FALSE, 0>>},
        by \in {<<0, 0>>, <<1, 4>>, <<3, 2>>},
        i \in {0, 1, 2, 5},
        n \in {0, 2, 4} }

HookProgress(d) ==
    IF d.status = "downloading"
    THEN ProgressDownloading(d.pct, d.pi, d.pc)
    ELSE ProgressFinished(d.pi, d.pc)

\* DownloadOptions, the fields the manager reads.  cookies_file: "" (none) or
\* "bad" (non-empty, not a local file).  ai: some AI title/summary flag is on.
Options(rs, cs, as) ==
    { [retries |-> r, concurrent_downloads |-> c, cookies_file |-> "", ai |-> a] :
        r \in rs, c \in cs, a \in as }

\* DownloadOptions with a cookies_file from ks: "" (none), "ok" (names a local
\* file: _validate_cookiefile returns it), "bad" (non-empty, names no local
\* file or is a URL: _validate_cookiefile returns "")
OptionsCookies(rs, cs, as, ks) ==
    { [retries |-> r, concurrent_downloads |-> c, cookies_file |-> k, ai |-> a] :
        r \in rs, c \in cs, a \in as, k \in ks }

MaxWorkers == Max(1, MaxConc)

\* Threads running _worker_loop, numbered in the order they are started: one
\* start() call starts at most MaxWorkers of them, and start() calls made at
\* once (followed for pools of one thread) at most one each
Workers == 1 .. Max(MaxWorkers, NumStarters)

\* Threads that call DownloadManager.start
Starters == 1 .. NumStarters

\* Threads, besides the GUI thread, that call DownloadManager.add_job
Adders == 1 .. NumAdders

(* ------------------------------- state -------------------------------- *)

VARIABLES
    jobs,        \* DownloadManager._jobs: sequence of DownloadJob records
    pending,     \* DownloadManager._pending: FIFO of job ids
    nworkers,    \* len(DownloadManager._workers)
    stop_event,  \* DownloadManager._stop_event
    wk,          \* per worker thread: position in _worker_loop/_run_job + locals
    uipc,        \* position of the GUI thread inside a Manager call
    uijob,       \* the job id that call is about
    ncancel,     \* cancel_job calls made so far
    nretry,      \* retry actions made so far
    lock,        \* DownloadManager._lock: 0 (free) or the adder thread holding it
    ad,          \* per adder thread: position in add_job + locals
    ra,          \* the GUI thread's locals in _retry_all_errors
    restart,     \* history: start() was called after stop() and the exit of
                 \* every worker, and stop() has not been called since
    st           \* per thread calling start(): position in start + locals

vars == <<jobs, pending, nworkers, stop_event, wk, uipc, uijob, ncancel, nretry,
          lock, ad, ra, restart, st>>

\* DownloadJob(job_id, url, options): the dataclass defaults.
\* cancelQ, cancelR are history fields: cancel_job set the signal while the
\* status was queued / running, and no retry has cleared the signal since.
\* speed, eta: "" or "last" (the display string of the last "downloading"
\* callback).
DownloadJob(id, opts) ==
    [ job_id |-> id, options |-> opts, status |-> "queued", progress |-> 0,
      speed |-> "", eta |-> "",
      error |-> "", cancel_event |-> FALSE, cancelQ |-> FALSE, cancelR |-> FALSE ]

\* A worker's locals.  calls, blockFails, logs are history counters of the
\* current execution: download calls started, calls that failed with a block
\* message, retry-wait log lines.  delay: the local of that name while the
\* thread is inside time.sleep(delay), else 0.  deqCancel: the cancel signal was set when
\* the id was dequeued and has not been cleared since.
Local(pc) ==
    [ pc |-> pc, job |-> 0, attempt |-> 0, exc |-> "", ticks |-> 0,
      calls |-> 0, blockFails |-> 0, logs |-> 0, fmtAt |-> 0, deqCancel |-> FALSE,
      delay |-> 0 ]

\* The locals of a thread inside add_job (pc "idle": outside the call).  The
\* Manager's add_job is callable from any thread; the GUI calls it on the Tk
\* thread.
AdderLocal == [pc |-> "idle", id |-> 0, options |-> << >>]

\* The GUI thread's locals in _retry_all_errors: the list jobs() returned (its
\* elements are the Manager's own DownloadJob objects, held here by job id),
\* the position of the for loop in it, and count
RetryAllLocal == [snap |-> << >>, idx |-> 0, count |-> 0]

\* The locals of a thread inside start() (pc "idle": not called yet)
StarterLocal == [pc |-> "idle", max_workers |-> 0, idx |-> 0]

JobIds == 1 .. Len(jobs)

\* DownloadManager.get_job in a job table js: the position of the first job
\* whose job_id is id, 0 for None
get_job(js, id) ==
    IF \E i \in 1 .. Len(js) : js[i].job_id = id
    THEN CHOOSE i \in 1 .. Len(js) :
             /\ js[i].job_id = id
             /\ \A k \in 1 .. (i - 1) : js[k].job_id # id
    ELSE 0

Init ==
    /\ jobs = << >>
    /\ pending = << >>
    /\ nworkers = 0
    /\ stop_event = FALSE
    /\ wk = [w \in Workers |-> Local("none")]
    /\ uipc = "idle"
    /\ uijob = 0
    /\ ncancel = 0
    /\ nretry = 0
    /\ lock = 0
    /\ ad = [a \in Adders |-> AdderLocal]
    /\ ra = RetryAllLocal
    /\ restart = FALSE
    /\ st = [c \in Starters |-> StarterLocal]

(* -------------------------- Manager, GUI thread ------------------------ *)

SetJob(j, f, v) == [jobs EXCEPT ![j] = [@ EXCEPT ![f] = v]]

\* DownloadManager.add_job called by the GUI thread: under the lock,
\* id = len(_jobs) + 1, append, put.
add_job(opts) ==
    /\ uipc = "idle"
    /\ lock = 0
    /\ jobs' = Append(jobs, DownloadJob(Len(jobs) + 1, opts))
    /\ pending' = Append(pending, Len(jobs) + 1)
    /\ UNCHANGED <<nworkers, stop_event, wk, uipc, uijob, ncancel, nretry, lock, ad, ra, restart, st>>

\* (a variant without the floor of 1)
PoolSizeNoFloor ==
    IF Len(jobs) > 0 THEN jobs[Len(jobs)].options.concurrent_downloads ELSE 1

\* Number of threads start() spawns
PoolSize ==
    Max(1, IF Len(jobs) > 0 THEN jobs[Len(jobs)].options.concurrent_downloads ELSE 1)

\* Every thread of the pool has left _worker_loop
PoolExited == nworkers > 0 /\ \A w \in 1 .. nworkers : wk[w].pc = "exited"

\* (a variant of start() without the test of _workers)
StartEffectAlways ==
    /\ lock = 0
    /\ stop_event' = FALSE
    /\ nworkers' = PoolSize
    /\ wk' = [w \in Workers |-> IF w <= PoolSize THEN Local("top") ELSE wk[w]]
    /\ UNCHANGED restart

\* The effect of DownloadManager.start() on the pool: "if self._workers:
\* return" under the lock (_workers is assigned nowhere else, so it stays
\* non-empty once a pool was spawned); else clear _stop_event and spawn.
StartEffect ==
    /\ lock = 0
    /\ IF nworkers > 0
       THEN /\ UNCHANGED <<nworkers, stop_event, wk>>
            /\ restart' = (restart \/ (stop_event /\ PoolExited))
       ELSE /\ stop_event' = FALSE
            /\ nworkers' = PoolSize
            /\ wk' = [w \in Workers |-> IF w <= PoolSize THEN Local("top") ELSE wk[w]]
            /\ UNCHANGED restart

\* DownloadManager.start (App._start)
start ==
    /\ uipc = "idle"
    /\ StartEffect
    /\ UNCHANGED <<jobs, pending, uipc, uijob, ncancel, nretry, lock, ad, ra, st>>

\* (a variant of stop() that also sets every job's cancel signal)
stop_cancelling ==
    /\ uipc = "idle"
    /\ stop_event' = TRUE
    /\ restart' = FALSE
    /\ jobs' = [j \in JobIds |-> [jobs[j] EXCEPT !.cancel_event = TRUE]]
    /\ UNCHANGED <<pending, nworkers, wk, uipc, uijob, ncancel, nretry, lock, ad, ra, st>>

\* DownloadManager.stop
stop ==
    /\ uipc = "idle"
    /\ stop_event' = TRUE
    /\ restart' = FALSE
    /\ UNCHANGED <<jobs, pending, nworkers, wk, uipc, uijob, ncancel, nretry, lock, ad, ra, st>>

\* (a variant of cancel_job that falls back to the newest job when no job has
\* the id)
cancel_job_last(id) ==
    /\ uipc = "idle"
    /\ lock = 0
    /\ ncancel < MaxCancels
    /\ ncancel' = ncancel + 1
    /\ IF Len(jobs) > 0
       THEN LET k == IF id \in JobIds THEN id ELSE Len(jobs) IN
            /\ jobs' = [jobs EXCEPT ![k] =
                           [@ EXCEPT !.cancel_event = TRUE,
                                      !.cancelQ = @ \/ jobs[k].status = "queued",
                                      !.cancelR = @ \/ jobs[k].status = "running"]]
            /\ uipc' = "cancel_read"
            /\ uijob' = k
       ELSE UNCHANGED <<jobs, uipc, uijob>>
    /\ UNCHANGED <<pending, nworkers, stop_event, wk, nretry, lock, ad, ra, restart, st>>

\* DownloadManager.cancel_job, first half: get_job (under the lock), then
\* cancel_event.set().
\* An id no job has returns at once.
cancel_job(id) ==
    /\ uipc = "idle"
    /\ lock = 0
    /\ ncancel < MaxCancels
    /\ ncancel' = ncancel + 1
    /\ IF id \in JobIds
       THEN /\ jobs' = [jobs EXCEPT ![id] =
                           [@ EXCEPT !.cancel_event = TRUE,
                                      !.cancelQ = @ \/ jobs[id].status = "queued",
                                      !.cancelR = @ \/ jobs[id].status = "running"]]
            /\ uipc' = "cancel_read"
            /\ uijob' = id
       ELSE UNCHANGED <<jobs, uipc, uijob>>
    /\ UNCHANGED <<pending, nworkers, stop_event, wk, nretry, lock, ad, ra, restart, st>>

\* cancel_job: the test "job.status in {queued, running}"
cancel_job_read ==
    /\ uipc = "cancel_read"
    /\ IF jobs[uijob].status \in {"queued", "running"}
       THEN uipc' = "cancel_write" /\ UNCHANGED uijob
       ELSE uipc' = "idle" /\ uijob' = 0
    /\ UNCHANGED <<jobs, pending, nworkers, stop_event, wk, ncancel, nretry, lock, ad, ra, restart, st>>

\* cancel_job: job.status = "cancelling"; notify
cancel_job_write ==
    /\ uipc = "cancel_write"
    /\ jobs' = SetJob(uijob, "status", "cancelling")
    /\ uipc' = "idle"
    /\ uijob' = 0
    /\ UNCHANGED <<pending, nworkers, stop_event, wk, ncancel, nretry, lock, ad, ra, restart, st>>

\* App._retry_selected: no test of the job's status; job.status = "queued"
retry_selected(id) ==
    /\ uipc = "idle"
    /\ lock = 0
    /\ id \in JobIds
    /\ nretry < MaxRetryActions
    /\ nretry' = nretry + 1
    /\ jobs' = SetJob(id, "status", "queued")
    /\ uipc' = "retry_reset"
    /\ uijob' = id
    /\ UNCHANGED <<pending, nworkers, stop_event, wk, ncancel, lock, ad, ra, restart, st>>

\* _retry_selected: job.progress = 0.0; job.error = ""
retry_reset ==
    /\ uipc = "retry_reset"
    /\ jobs' = [jobs EXCEPT ![uijob] = [@ EXCEPT !.progress = 0, !.error = ""]]
    /\ uipc' = "retry_clear"
    /\ UNCHANGED <<pending, nworkers, stop_event, wk, uijob, ncancel, nretry, lock, ad, ra, restart, st>>

\* _retry_selected: job.cancel_event.clear()
retry_clear ==
    /\ uipc = "retry_clear"
    /\ jobs' = [jobs EXCEPT ![uijob] =
                   [@ EXCEPT !.cancel_event = FALSE, !.cancelQ = FALSE, !.cancelR = FALSE]]
    /\ wk' = [w \in Workers |->
                 IF wk[w].job = uijob THEN [wk[w] EXCEPT !.deqCancel = FALSE] ELSE wk[w]]
    /\ uipc' = "retry_put"
    /\ UNCHANGED <<pending, nworkers, stop_event, uijob, ncancel, nretry, lock, ad, ra, restart, st>>

\* _retry_selected: manager._pending.put(job.job_id); manager.start().
\* start() acts only while no worker thread exists, so nothing runs between
\* the put and it.
retry_put ==
    /\ uipc = "retry_put"
    /\ pending' = Append(pending, uijob)
    /\ StartEffect
    /\ uipc' = "idle"
    /\ uijob' = 0
    /\ UNCHANGED <<jobs, ncancel, nretry, lock, ad, ra, st>>

\* App._retry_all_errors: "for job in self.manager.jobs()".  jobs() returns
\* list(self._jobs) under the lock: a new list of the same DownloadJob objects.
retry_all_errors ==
    /\ uipc = "idle"
    /\ lock = 0
    /\ nretry < MaxRetryActions
    /\ nretry' = nretry + 1
    /\ ra' = [snap |-> [i \in 1 .. Len(jobs) |-> i], idx |-> 1, count |-> 0]
    /\ uipc' = "ra_test"
    /\ UNCHANGED <<jobs, pending, nworkers, stop_event, wk, uijob, ncancel, lock, ad, restart, st>>

\* _retry_all_errors: the loop head and 'if job.status == "error"'; after the
\* last element "if count > 0: self.manager.start()"
ra_test ==
    /\ uipc = "ra_test"
    /\ IF ra.idx > Len(ra.snap)
       THEN /\ IF ra.count > 0
               THEN StartEffect
               ELSE UNCHANGED <<nworkers, stop_event, wk, restart>>
            /\ uipc' = "idle"
            /\ ra' = RetryAllLocal
       ELSE /\ IF jobs[ra.snap[ra.idx]].status = "error"
               THEN uipc' = "ra_status" /\ UNCHANGED ra
               ELSE uipc' = "ra_test" /\ ra' = [ra EXCEPT !.idx = @ + 1]
            /\ UNCHANGED <<nworkers, stop_event, wk, restart>>
    /\ UNCHANGED <<jobs, pending, uijob, ncancel, nretry, lock, ad, st>>

\* _retry_all_errors: job.status = "queued", written through the list element
ra_status ==
    /\ uipc = "ra_status"
    /\ jobs' = SetJob(ra.snap[ra.idx], "status", "queued")
    /\ uipc' = "ra_reset"
    /\ UNCHANGED <<pending, nworkers, stop_event, wk, uijob, ncancel, nretry, lock, ad, ra, restart, st>>

\* _retry_all_errors: job.progress = 0.0; job.error = ""
ra_reset ==
    /\ uipc = "ra_reset"
    /\ jobs' = [jobs EXCEPT ![ra.snap[ra.idx]] = [@ EXCEPT !.progress = 0, !.error = ""]]
    /\ uipc' = "ra_clear"
    /\ UNCHANGED <<pending, nworkers, stop_event, wk, uijob, ncancel, nretry, lock, ad, ra, restart, st>>

\* _retry_all_errors: job.cancel_event.clear()
ra_clear ==
    /\ uipc = "ra_clear"
    /\ jobs' = [jobs EXCEPT ![ra.snap[ra.idx]] =
                   [@ EXCEPT !.cancel_event = FALSE, !.cancelQ = FALSE, !.cancelR = FALSE]]
    /\ wk' = [w \in Workers |->
                 IF wk[w].job = ra.snap[ra.idx] THEN [wk[w] EXCEPT !.deqCancel = FALSE] ELSE wk[w]]
    /\ uipc' = "ra_put"
    /\ UNCHANGED <<pending, nworkers, stop_event, uijob, ncancel, nretry, lock, ad, ra, restart, st>>

\* _retry_all_errors: self.manager._pending.put(job.job_id); count += 1
ra_put ==
    /\ uipc = "ra_put"
    /\ pending' = Append(pending, jobs[ra.snap[ra.idx]].job_id)
    /\ ra' = [ra EXCEPT !.idx = @ + 1, !.count = @ + 1]
    /\ uipc' = "ra_test"
    /\ UNCHANGED <<jobs, nworkers, stop_event, wk, uijob, ncancel, nretry, lock, ad, restart, st>>

(* ---------------- add_job, called by threads concurrently ------------- *)

\* (a variant that enters add_job without waiting for the lock)
add_acquire_unlocked(a, opts) ==
    /\ ad[a].pc = "idle"
    /\ Len(jobs) < MaxJobs
    /\ lock' = a
    /\ ad' = [ad EXCEPT ![a] = [pc |-> "alloc", id |-> 0, options |-> opts]]
    /\ UNCHANGED <<jobs, pending, nworkers, stop_event, wk, uipc, uijob, ncancel, nretry, ra, restart, st>>

\* add_job: "with self._lock"
add_acquire(a, opts) ==
    /\ ad[a].pc = "idle"
    /\ lock = 0
    /\ Len(jobs) < MaxJobs
    /\ lock' = a
    /\ ad' = [ad EXCEPT ![a] = [pc |-> "alloc", id |-> 0, options |-> opts]]
    /\ UNCHANGED <<jobs, pending, nworkers, stop_event, wk, uipc, uijob, ncancel, nretry, ra, restart, st>>

\* add_job: job = DownloadJob(job_id=len(self._jobs) + 1, ...)
add_alloc(a) ==
    /\ ad[a].pc = "alloc"
    /\ ad' = [ad EXCEPT ![a].pc = "append", ![a].id = Len(jobs) + 1]
    /\ UNCHANGED <<jobs, pending, nworkers, stop_event, wk, uipc, uijob, ncancel, nretry, lock, ra, restart, st>>

\* (a variant that stores the new job in the place of the newest one)
add_append_replace(a) ==
    /\ ad[a].pc = "append"
    /\ jobs' = IF Len(jobs) > 0
               THEN [jobs EXCEPT ![Len(jobs)] = DownloadJob(ad[a].id, ad[a].options)]
               ELSE Append(jobs, DownloadJob(ad[a].id, ad[a].options))
    /\ ad' = [ad EXCEPT ![a].pc = "put"]
    /\ UNCHANGED <<pending, nworkers, stop_event, wk, uipc, uijob, ncancel, nretry, lock, ra, restart, st>>

\* add_job: self._jobs.append(job)
add_append(a) ==
    /\ ad[a].pc = "append"
    /\ jobs' = Append(jobs, DownloadJob(ad[a].id, ad[a].options))
    /\ ad' = [ad EXCEPT ![a].pc = "put"]
    /\ UNCHANGED <<pending, nworkers, stop_event, wk, uipc, uijob, ncancel, nretry, lock, ra, restart, st>>

\* (a variant of the last step of add_job that enqueues the id twice)
add_put_twice(a) ==
    /\ ad[a].pc = "put"
    /\ pending' = Append(Append(pending, ad[a].id), ad[a].id)
    /\ lock' = 0
    /\ ad' = [ad EXCEPT ![a] = AdderLocal]
    /\ UNCHANGED <<jobs, nworkers, stop_event, wk, uipc, uijob, ncancel, nretry, ra, restart, st>>

\* add_job: self._pending.put(job.job_id); the lock is released; notify
add_put(a) ==
    /\ ad[a].pc = "put"
    /\ pending' = Append(pending, ad[a].id)
    /\ lock' = 0
    /\ ad' = [ad EXCEPT ![a] = AdderLocal]
    /\ UNCHANGED <<jobs, nworkers, stop_event, wk, uipc, uijob, ncancel, nretry, ra, restart, st>>

(* ----------------- start, called by threads concurrently --------------- *)

\* Worker threads started so far
Spawned == Cardinality({ w \in Workers : wk[w].pc # "none" })

\* start: "with self._lock: if self._workers: return"; the lock is released
\* at the end of the with block
start_test(c) ==
    /\ st[c].pc = "idle"
    /\ lock = 0
    /\ st' = [st EXCEPT ![c].pc = IF nworkers > 0 THEN "returned" ELSE "clear"]
    /\ UNCHANGED <<jobs, pending, nworkers, stop_event, wk, uipc, uijob, ncancel, nretry, lock, ad, ra, restart>>

\* start: self._stop_event.clear()
start_clear(c) ==
    /\ st[c].pc = "clear"
    /\ stop_event' = FALSE
    /\ st' = [st EXCEPT ![c].pc = "size"]
    /\ UNCHANGED <<jobs, pending, nworkers, wk, uipc, uijob, ncancel, nretry, lock, ad, ra, restart>>

\* start: max_workers = max(1, int(self._jobs[-1].options.concurrent_downloads)
\* if self._jobs else 1)
start_size(c) ==
    /\ st[c].pc = "size"
    /\ st' = [st EXCEPT ![c].pc = "reset", ![c].max_workers = PoolSize]
    /\ UNCHANGED <<jobs, pending, nworkers, stop_event, wk, uipc, uijob, ncancel, nretry, lock, ad, ra, restart>>

\* start: self._workers = []
start_reset(c) ==
    /\ st[c].pc = "reset"
    /\ nworkers' = 0
    /\ st' = [st EXCEPT ![c].pc = "spawn", ![c].idx = 0]
    /\ UNCHANGED <<jobs, pending, stop_event, wk, uipc, uijob, ncancel, nretry, lock, ad, ra, restart>>

\* start: "for idx in range(max_workers)": self._workers.append(t); t.start();
\* after the loop the log line, and the call returns
start_spawn(c) ==
    /\ st[c].pc = "spawn"
    /\ IF st[c].idx < st[c].max_workers
       THEN /\ nworkers' = nworkers + 1
            /\ wk' = [wk EXCEPT ![Spawned + 1] = Local("top")]
            /\ st' = [st EXCEPT ![c].idx = @ + 1]
       ELSE /\ st' = [st EXCEPT ![c].pc = "returned"]
            /\ UNCHANGED <<nworkers, wk>>
    /\ UNCHANGED <<jobs, pending, stop_event, uipc, uijob, ncancel, nretry, lock, ad, ra, restart>>

(* ----------------------------- worker thread --------------------------- *)

Job(w) == jobs[wk[w].job]

Goto(w, pc) == wk' = [wk EXCEPT ![w].pc = pc]

\* _worker_loop: "while not self._stop_event.is_set()"
loop_test(w) ==
    /\ wk[w].pc = "top"
    /\ Goto(w, IF stop_event THEN "exited" ELSE "get")
    /\ UNCHANGED <<jobs, pending, nworkers, stop_event, uipc, uijob, ncancel, nretry, lock, ad, ra, restart, st>>

\* (a variant that takes the newest entry of the queue)
pending_get_last(w) ==
    /\ wk[w].pc = "get"
    /\ IF pending = << >>
       THEN Goto(w, "top") /\ UNCHANGED pending
       ELSE /\ pending' = SubSeq(pending, 1, Len(pending) - 1)
            /\ wk' = [wk EXCEPT ![w].pc = "fetched", ![w].job = pending[Len(pending)],
                                ![w].deqCancel = jobs[pending[Len(pending)]].cancel_event]
    /\ UNCHANGED <<jobs, nworkers, stop_event, uipc, uijob, ncancel, nretry, lock, ad, ra, restart, st>>

\* _worker_loop: self._pending.get(timeout=0.2); queue.Empty -> continue
pending_get(w) ==
    /\ wk[w].pc = "get"
    /\ IF pending = << >>
       THEN Goto(w, "top") /\ UNCHANGED pending
       ELSE /\ pending' = Tail(pending)
            /\ wk' = [wk EXCEPT ![w].pc = "fetched", ![w].job = Head(pending),
                                ![w].deqCancel = jobs[Head(pending)].cancel_event]
    /\ UNCHANGED <<jobs, nworkers, stop_event, uipc, uijob, ncancel, nretry, lock, ad, ra, restart, st>>

\* (a variant that skips the test of the cancel signal)
cancel_test_skipped(w) ==
    /\ wk[w].pc = "fetched"
    /\ lock = 0
    /\ Goto(w, "run")
    /\ UNCHANGED <<jobs, pending, nworkers, stop_event, uipc, uijob, ncancel, nretry, lock, ad, ra, restart, st>>

\* _worker_loop: get_job(job_id); "if job.cancel_event.is_set()"
cancel_test(w) ==
    /\ wk[w].pc = "fetched"
    /\ lock = 0
    /\ Goto(w, IF Job(w).cancel_event THEN "mark" ELSE "run")
    /\ UNCHANGED <<jobs, pending, nworkers, stop_event, uipc, uijob, ncancel, nretry, lock, ad, ra, restart, st>>

\* _worker_loop: job.status = "cancelled"; notify; continue
mark_cancelled(w) ==
    /\ wk[w].pc = "mark"
    /\ jobs' = SetJob(wk[w].job, "status", "cancelled")
    /\ wk' = [wk EXCEPT ![w] = Local("top")]
    /\ UNCHANGED <<pending, nworkers, stop_event, uipc, uijob, ncancel, nretry, lock, ad, ra, restart, st>>

\* _run_job: job.status = "running"
run_status(w) ==
    /\ wk[w].pc = "run"
    /\ jobs' = SetJob(wk[w].job, "status", "running")
    /\ Goto(w, "run_reset")
    /\ UNCHANGED <<pending, nworkers, stop_event, uipc, uijob, ncancel, nretry, lock, ad, ra, restart, st>>

\* _run_job: job.progress = 0.0; job.error = ""; job.thumbnail = ""; notify;
\* then, up to the retry loop, building ydl_opts.  A non-empty cookies_file
\* that is no local file raises ValueError before the try block: the
\* exception leaves _run_job and _worker_loop and ends the thread.  The probe
\* call (download=False, no progress hook) changes nothing.
run_reset(w) ==
    /\ wk[w].pc = "run_reset"
    /\ jobs' = [jobs EXCEPT ![wk[w].job] = [@ EXCEPT !.progress = 0, !.error = ""]]
    /\ IF Job(w).options.cookies_file = "bad"
       THEN wk' = [wk EXCEPT ![w] = Local("dead")]
       ELSE wk' = [wk EXCEPT ![w].pc = "attempt", ![w].attempt = 1]
    /\ UNCHANGED <<pending, nworkers, stop_event, uipc, uijob, ncancel, nretry, lock, ad, ra, restart, st>>

\* Retry loop head: "if job.cancel_event.is_set(): raise Exception('Cancelled')",
\* else YoutubeDL(ydl_opts).extract_info(url, download=True) begins
attempt_begin(w) ==
    /\ wk[w].pc = "attempt"
    /\ IF Job(w).cancel_event
       THEN wk' = [wk EXCEPT ![w].pc = "handler", ![w].exc = "Cancelled"]
       ELSE wk' = [wk EXCEPT ![w].pc = "dl", ![w].calls = @ + 1, ![w].ticks = 0]
    /\ UNCHANGED <<jobs, pending, nworkers, stop_event, uipc, uijob, ncancel, nretry, lock, ad, ra, restart, st>>

\* (a variant of the except clause that retries after every failure)
ExceptClauseRetryAny(w, m) ==
    IF MentionsRequestedFormat(m)
    THEN wk' = [wk EXCEPT ![w].pc = "fb", ![w].calls = @ + 1, ![w].ticks = 0,
                          ![w].fmtAt = wk[w].attempt]
    ELSE IF /\ wk[w].attempt < max_attempts(Job(w).options.retries)
            /\ ~Job(w).cancel_event
         THEN wk' = [wk EXCEPT ![w].pc = "backoff", ![w].exc = m,
                               ![w].blockFails = @ + 1]
         ELSE wk' = [wk EXCEPT ![w].pc = "handler", ![w].exc = m,
                               ![w].blockFails = @ + (IF _is_block_error(m) THEN 1 ELSE 0)]

\* The loop's except clause for a failure message m of the main call:
\* "last_exc = e", then the format fallback (a second call, without "format"
\* and "merge_output_format"), or the backoff before the next attempt, or
\* "raise".
ExceptClause(w, m) ==
    IF MentionsRequestedFormat(m)
    THEN wk' = [wk EXCEPT ![w].pc = "fb", ![w].calls = @ + 1, ![w].ticks = 0,
                          ![w].fmtAt = wk[w].attempt]
    ELSE IF /\ _is_block_error(m)
            /\ wk[w].attempt < max_attempts(Job(w).options.retries)
            /\ ~Job(w).cancel_event
         THEN wk' = [wk EXCEPT ![w].pc = "backoff", ![w].exc = m,
                               ![w].blockFails = @ + 1]
         ELSE wk' = [wk EXCEPT ![w].pc = "handler", ![w].exc = m,
                               ![w].blockFails = @ + (IF _is_block_error(m) THEN 1 ELSE 0)]

\* _progress_hook, called by the collaborator inside the main call ("dl") or
\* the fallback call ("fb"); a "downloading" callback also stores the
\* collaborator's speed and eta strings.  With the signal set it raises
\* "Cancelled", which
\* ends the call: inside the main call the loop's except clause receives it,
\* inside the fallback call (made from that except clause) it leaves the loop.
progress_hook(w, d) ==
    /\ wk[w].pc \in {"dl", "fb"}
    /\ wk[w].ticks < MaxTicks
    /\ IF Job(w).cancel_event
       THEN /\ IF wk[w].pc = "dl"
               THEN ExceptClause(w, "Cancelled")
               ELSE wk' = [wk EXCEPT ![w].pc = "handler", ![w].exc = "Cancelled"]
            /\ UNCHANGED jobs
       ELSE /\ jobs' = [jobs EXCEPT ![wk[w].job] =
                           IF d.status = "downloading"
                           THEN [@ EXCEPT !.progress = HookProgress(d),
                                          !.speed = "last", !.eta = "last"]
                           ELSE [@ EXCEPT !.progress = HookProgress(d)]]
            /\ wk' = [wk EXCEPT ![w].ticks = @ + 1]
    /\ UNCHANGED <<pending, nworkers, stop_event, uipc, uijob, ncancel, nretry, lock, ad, ra, restart, st>>

\* What follows a successful call: "last_exc = None; break", then the
\* post-success steps (title clean-up, translation, summary), which run outside
\* any inner try: with an AI flag on and metadata the step cannot handle (title
\* or view_count None) they raise, and the exception reaches _run_job's outer
\* except clause.  Otherwise the settling test "if job.cancel_event.is_set()".
AfterSuccess(w, badinfo) ==
    IF badinfo /\ Job(w).options.ai
    THEN wk' = [wk EXCEPT ![w].pc = "handler", ![w].exc = "TypeError"]
    ELSE wk' = [wk EXCEPT ![w].pc =
                   IF Job(w).cancel_event THEN "settle_cancelled" ELSE "settle_status"]

\* The backoff: delay = min(60.0, 2.0 ** (attempt - 1) + jitter); the
\* "[Retry] ... Waiting" log line; time.sleep(delay) begins
backoff_sleep(w, jitter) ==
    /\ wk[w].pc = "backoff"
    /\ wk' = [wk EXCEPT ![w].pc = "sleep", ![w].logs = @ + 1,
                        ![w].delay = BackoffDelay(wk[w].attempt, jitter)]
    /\ UNCHANGED <<jobs, pending, nworkers, stop_event, uipc, uijob, ncancel, nretry, lock, ad, ra, restart, st>>

\* (a variant in which the next attempt goes through the pending queue)
backoff_wake_requeue(w) ==
    /\ wk[w].pc = "sleep"
    /\ pending' = Append(pending, wk[w].job)
    /\ wk' = [wk EXCEPT ![w].pc = "attempt", ![w].attempt = @ + 1, ![w].delay = 0]
    /\ UNCHANGED <<jobs, nworkers, stop_event, uipc, uijob, ncancel, nretry, lock, ad, ra, restart, st>>

\* (a variant in which the worker gives the job up after the sleep and goes
\* back to the queue)
backoff_wake_abandon(w) ==
    /\ wk[w].pc = "sleep"
    /\ wk' = [wk EXCEPT ![w] = Local("top")]
    /\ UNCHANGED <<jobs, pending, nworkers, stop_event, uipc, uijob, ncancel, nretry, lock, ad, ra, restart, st>>

\* time.sleep returns; "continue": the next value of the for loop
backoff_wake(w) ==
    /\ wk[w].pc = "sleep"
    /\ wk' = [wk EXCEPT ![w].pc = "attempt", ![w].attempt = @ + 1, ![w].delay = 0]
    /\ UNCHANGED <<jobs, pending, nworkers, stop_event, uipc, uijob, ncancel, nretry, lock, ad, ra, restart, st>>

\* The main call returns info
extract_ok(w, badinfo) ==
    /\ wk[w].pc = "dl"
    /\ AfterSuccess(w, badinfo)
    /\ UNCHANGED <<jobs, pending, nworkers, stop_event, uipc, uijob, ncancel, nretry, lock, ad, ra, restart, st>>

\* The main call raises an exception with message m
extract_raise(w, m) ==
    /\ wk[w].pc = "dl"
    /\ ExceptClause(w, m)
    /\ UNCHANGED <<jobs, pending, nworkers, stop_event, uipc, uijob, ncancel, nretry, lock, ad, ra, restart, st>>

\* The fallback call returns info
fallback_ok(w, badinfo) ==
    /\ wk[w].pc = "fb"
    /\ AfterSuccess(w, badinfo)
    /\ UNCHANGED <<jobs, pending, nworkers, stop_event, uipc, uijob, ncancel, nretry, lock, ad, ra, restart, st>>

\* The fallback call raises: the exception leaves the except clause
fallback_raise(w, m) ==
    /\ wk[w].pc = "fb"
    /\ wk' = [wk EXCEPT ![w].pc = "handler", ![w].exc = m]
    /\ UNCHANGED <<jobs, pending, nworkers, stop_event, uipc, uijob, ncancel, nretry, lock, ad, ra, restart, st>>

\* Settling after success, signal set: job.status = "cancelled"; notify
settle_cancelled(w) ==
    /\ wk[w].pc = "settle_cancelled"
    /\ jobs' = SetJob(wk[w].job, "status", "cancelled")
    /\ wk' = [wk EXCEPT ![w] = Local("top")]
    /\ UNCHANGED <<pending, nworkers, stop_event, uipc, uijob, ncancel, nretry, lock, ad, ra, restart, st>>

\* "elif job.status not in {error, cancelled}"
settle_status(w) ==
    /\ wk[w].pc = "settle_status"
    /\ IF Job(w).status \in {"error", "cancelled"}
       THEN wk' = [wk EXCEPT ![w] = Local("top")]
       ELSE Goto(w, "settle_done")
    /\ UNCHANGED <<jobs, pending, nworkers, stop_event, uipc, uijob, ncancel, nretry, lock, ad, ra, restart, st>>

\* job.status = "done"
settle_done(w) ==
    /\ wk[w].pc = "settle_done"
    /\ jobs' = SetJob(wk[w].job, "status", "done")
    /\ Goto(w, "settle_progress")
    /\ UNCHANGED <<pending, nworkers, stop_event, uipc, uijob, ncancel, nretry, lock, ad, ra, restart, st>>

\* job.progress = 100.0; notify
settle_progress(w) ==
    /\ wk[w].pc = "settle_progress"
    /\ jobs' = SetJob(wk[w].job, "progress", Full)
    /\ wk' = [wk EXCEPT ![w] = Local("top")]
    /\ UNCHANGED <<pending, nworkers, stop_event, uipc, uijob, ncancel, nretry, lock, ad, ra, restart, st>>

\* _run_job's outer except clause: "if job.cancel_event.is_set()"
handler_test(w) ==
    /\ wk[w].pc = "handler"
    /\ Goto(w, IF Job(w).cancel_event THEN "handler_cancelled" ELSE "handler_error")
    /\ UNCHANGED <<jobs, pending, nworkers, stop_event, uipc, uijob, ncancel, nretry, lock, ad, ra, restart, st>>

\* job.status = "cancelled"; job.error = ""; notify
handler_cancelled(w) ==
    /\ wk[w].pc = "handler_cancelled"
    /\ jobs' = [jobs EXCEPT ![wk[w].job] = [@ EXCEPT !.status = "cancelled", !.error = ""]]
    /\ wk' = [wk EXCEPT ![w] = Local("top")]
    /\ UNCHANGED <<pending, nworkers, stop_event, uipc, uijob, ncancel, nretry, lock, ad, ra, restart, st>>

\* job.status = "error"
handler_error(w) ==
    /\ wk[w].pc = "handler_error"
    /\ jobs' = SetJob(wk[w].job, "status", "error")
    /\ Goto(w, "handler_message")
    /\ UNCHANGED <<pending, nworkers, stop_event, uipc, uijob, ncancel, nretry, lock, ad, ra, restart, st>>

\* job.error = the cookies advice for a block error, else the raw message; notify
handler_message(w) ==
    /\ wk[w].pc = "handler_message"
    /\ jobs' = SetJob(wk[w].job, "error",
                      IF _is_block_error(wk[w].exc)
                      THEN BlockAdvice(Job(w).options.cookies_file)
                      ELSE wk[w].exc)
    /\ wk' = [wk EXCEPT ![w] = Local("top")]
    /\ UNCHANGED <<pending, nworkers, stop_event, uipc, uijob, ncancel, nretry, lock, ad, ra, restart, st>>

(* ---------------------------- specification ---------------------------- *)

Worker(w) ==
    \/ loop_test(w)
    \/ pending_get(w)
    \/ cancel_test(w)
    \/ mark_cancelled(w)
    \/ run_status(w)
    \/ run_reset(w)
    \/ attempt_begin(w)
    \/ \E d \in Ticks : progress_hook(w, d)
    \/ \E b \in BOOLEAN : extract_ok(w, b)
    \/ \E m \in Msgs : extract_raise(w, m)
    \/ \E j \in Jitters : backoff_sleep(w, j)
    \/ backoff_wake(w)
    \/ \E b \in BOOLEAN : fallback_ok(w, b)
    \/ \E m \in Msgs : fallback_raise(w, m)
    \/ settle_cancelled(w)
    \/ settle_status(w)
    \/ settle_done(w)
    \/ settle_progress(w)
    \/ handler_test(w)
    \/ handler_cancelled(w)
    \/ handler_error(w)
    \/ handler_message(w)

Gui(opts, maxjobs) ==
    \/ \E o \in opts : Len(jobs) < maxjobs /\ add_job(o)
    \/ start
    \/ stop
    \/ \E id \in 1 .. maxjobs : cancel_job(id)
    \/ cancel_job_read
    \/ cancel_job_write
    \/ \E id \in 1 .. maxjobs : retry_selected(id)
    \/ retry_reset
    \/ retry_clear
    \/ retry_put

\* One job and one worker thread: every GUI action at any time, every option
\* value, every outcome of the collaborator.
Next ==
    \/ Gui(Options(-1 .. MaxRetriesOpt, {0, 1}, BOOLEAN), 1)
    \/ \E w \in Workers : Worker(w)

Spec == Init /\ [][Next]_vars

\* One job and a pool of MaxConc worker threads (retries = 1, no AI flag)
NextPool ==
    \/ Gui(Options({1}, {MaxConc}, {FALSE}), 1)
    \/ \E w \in Workers : Worker(w)

SpecPool == Init /\ [][NextPool]_vars

\* The steps of an adder thread inside add_job
Adder(a, opts) ==
    \/ \E o \in opts : add_acquire(a, o)
    \/ add_alloc(a)
    \/ add_append(a)
    \/ add_put(a)

\* Up to MaxJobs jobs added by the GUI thread and by NumAdders other threads
\* at once, and one worker thread executing them (concurrent_downloads = 1,
\* no AI flag; at most MaxCancels cancel_job calls, no retry, no stop)
NextAdd ==
    \/ \E o \in Options(0 .. MaxRetriesOpt, {1}, {FALSE}) : Len(jobs) < MaxJobs /\ add_job(o)
    \/ start
    \/ \E id \in 1 .. MaxJobs : cancel_job(id)
    \/ cancel_job_read
    \/ cancel_job_write
    \/ \E a \in Adders : Adder(a, Options(0 .. MaxRetriesOpt, {1}, {FALSE}))
    \/ \E w \in Workers : Worker(w)

SpecAdd == Init /\ [][NextAdd]_vars

\* One job with concurrent_downloads in 0 .. MaxConc, the pool started and
\* stopped at any time, at most MaxCancels cancel_job calls with the id of the
\* job or an id no job has (retries = 1, no AI flag; no retry action)
NextCtl ==
    \/ \E o \in Options({1}, 0 .. MaxConc, {FALSE}) : Len(jobs) < 1 /\ add_job(o)
    \/ start
    \/ stop
    \/ \E id \in 1 .. MaxJobs : cancel_job(id)
    \/ cancel_job_read
    \/ cancel_job_write
    \/ \E w \in Workers : Worker(w)

SpecCtl == Init /\ [][NextCtl]_vars

\* The same, with every worker thread scheduled again and again: a thread
\* that can take a step of _worker_loop / _run_job eventually takes one (the
\* collaborator's call returns or raises).  The GUI's calls are the user's.
SpecCtlFair == SpecCtl /\ \A w \in Workers : WF_vars(Worker(w))

\* The "retry all errors" action of the GUI (at most MaxRetryActions times)
\* over up to MaxJobs jobs, the first added by the GUI thread and further ones
\* by another thread at any time, also while the GUI iterates over the list
\* jobs() returned; one worker thread (retries = 1, concurrent_downloads = 1)
NextRetryAll ==
    \/ \E o \in Options({1}, {1}, {FALSE}) : Len(jobs) < 1 /\ add_job(o)
    \/ Len(jobs) >= 1 /\ Adder(1, Options({1}, {1}, {FALSE}))
    \/ start
    \/ \E id \in 1 .. MaxJobs : cancel_job(id)
    \/ cancel_job_read
    \/ cancel_job_write
    \/ retry_all_errors
    \/ ra_test
    \/ ra_status
    \/ ra_reset
    \/ ra_clear
    \/ ra_put
    \/ \E w \in Workers : Worker(w)

SpecRetryAll == Init /\ [][NextRetryAll]_vars

\* One job with any cookies_file, the pool started and stopped at any time,
\* at most MaxCancels cancel_job calls (retries = 1, concurrent_downloads = 1)
NextCookies ==
    \/ \E o \in OptionsCookies({1}, {1}, {FALSE}, {"", "ok", "bad"}) :
          Len(jobs) < 1 /\ add_job(o)
    \/ start
    \/ stop
    \/ \E id \in 1 .. MaxJobs : cancel_job(id)
    \/ cancel_job_read
    \/ cancel_job_write
    \/ \E w \in Workers : Worker(w)

SpecCookies == Init /\ [][NextCookies]_vars

\* One job and one worker; the collaborator delivers any callback of
\* PlaylistTicks, in the main calls of all attempts and in the fallback call
\* (retries in 0 .. MaxRetriesOpt; at most MaxCancels cancel_job calls)
NextHook ==
    \/ \E o \in Options(0 .. MaxRetriesOpt, {1}, {FALSE}) : Len(jobs) < 1 /\ add_job(o)
    \/ start
    \/ \E id \in 1 .. MaxJobs : cancel_job(id)
    \/ cancel_job_read
    \/ cancel_job_write
    \/ \E w \in Workers : Worker(w)
    \/ \E w \in Workers : \E d \in PlaylistTicks : progress_hook(w, d)

SpecHook == Init /\ [][NextHook]_vars

\* One job with retries = MaxBackoffRetries and one worker, every failure
\* message and every jitter (at most MaxCancels cancel_job calls)
NextBackoff ==
    \/ \E o \in Options({MaxBackoffRetries}, {1}, {FALSE}) : Len(jobs) < 1 /\ add_job(o)
    \/ start
    \/ \E id \in 1 .. MaxJobs : cancel_job(id)
    \/ cancel_job_read
    \/ cancel_job_write
    \/ \E w \in Workers : Worker(w)

SpecBackoff == Init /\ [][NextBackoff]_vars

\* Up to MaxJobs jobs and one worker, every GUI action at any time (retries
\* = 1, concurrent_downloads = 1, no AI flag)
NextRetrySel ==
    \/ Gui(Options({1}, {1}, {FALSE}), MaxJobs)
    \/ \E w \in Workers : Worker(w)

SpecRetrySel == Init /\ [][NextRetrySel]_vars

\* The steps of a thread that calls start() once
Starter(c) ==
    \/ start_test(c)
    \/ start_clear(c)
    \/ start_size(c)
    \/ start_reset(c)
    \/ start_spawn(c)

\* At most one job (concurrent_downloads 0 or 1: a pool of one thread;
\* retries = 1) added before the first start() call, then NumStarters threads
\* calling start() at once, and the worker threads they start (at most
\* MaxCancels cancel_job calls)
NextStart ==
    \/ \E o \in Options({1}, {0, 1}, {FALSE}) :
          /\ Len(jobs) < 1
          /\ \A c \in Starters : st[c].pc = "idle"
          /\ add_job(o)
    \/ \E c \in Starters : Starter(c)
    \/ \E id \in 1 .. MaxJobs : cancel_job(id)
    \/ cancel_job_read
    \/ cancel_job_write
    \/ \E w \in Workers : Worker(w)

SpecStart == Init /\ [][NextStart]_vars

(* ------------------------------- claims -------------------------------- *)

\* Worker w is inside _run_job
RunPcs ==
    { "run_reset", "attempt", "dl", "backoff", "sleep", "fb", "handler", "handler_cancelled",
      "handler_error", "handler_message", "settle_cancelled", "settle_status",
      "settle_done", "settle_progress" }

Executing(w) == wk[w].pc \in RunPcs

\* No worker holds job j, it has no queue entry and the GUI is in no call
Held(j) == \E w \in Workers : wk[w].job = j

Queued(j) == \E i \in 1 .. Len(pending) : pending[i] = j

Quiescent(j) == uipc = "idle" /\ ~Held(j) /\ ~Queued(j)

\* C1: in every reachable state a job id is inside _run_job in at most one
\* worker.
C1_AtMostOneExecution ==
    \A w1, w2 \in Workers :
        (w1 # w2 /\ Executing(w1) /\ Executing(w2)) => wk[w1].job # wk[w2].job

AllowedEdges ==
    { <<"queued", "running">>, <<"running", "done">>, <<"running", "error">>,
      <<"running", "cancelled">>, <<"running", "cancelling">>,
      <<"cancelling", "cancelled">>, <<"queued", "cancelling">>,
      <<"queued", "cancelled">> }
    \cup { <<s, "queued">> : s \in {"running", "cancelling", "cancelled", "error"} }

\* C2: every change of a job's status is one of the allowed edges (a reset to
\* queued only from a state other than done).
C2_OnlyAllowedEdges ==
    [][ \A j \in JobIds :
           \/ jobs'[j].status = jobs[j].status
           \/ <<jobs[j].status, jobs'[j].status>> \in AllowedEdges ]_vars

\* C3: a job on which cancel_job was called while its status was running
\* (and whose signal no retry has cleared since) is never done or error, and
\* once cancelled its error is empty.
C3_CancelWhileRunningSettlesCancelled ==
    \A j \in JobIds :
        jobs[j].cancelR =>
            /\ jobs[j].status \notin {"done", "error"}
            /\ (jobs[j].status = "cancelled" => jobs[j].error = "")

\* C4: a worker that dequeued an id whose job had the cancel signal set (not
\* cleared by a retry since) never enters _run_job for it: it is at the test
\* of the signal or at the assignment of "cancelled", with no download call.
C4_CancelledBeforeDequeueNeverRuns ==
    \A w \in Workers :
        wk[w].deqCancel => (wk[w].pc \in {"fetched", "mark"} /\ wk[w].calls = 0)

\* C4, the case: the signal was set at the dequeue and the worker is about to
\* mark the job cancelled.
C4_Witness ==
    \E w \in Workers :
        wk[w].deqCancel /\ wk[w].pc = "mark" /\ jobs[wk[w].job].cancel_event

\* C5: a job on which cancel_job was called while queued ends cancelled: once
\* no worker holds it, it has no queue entry and the GUI call has returned
\* (nothing is left that would change it), its status is cancelled.
C5_CancelledWhileQueuedEndsCancelled ==
    \A j \in JobIds :
        (jobs[j].cancelQ /\ Quiescent(j)) => jobs[j].status = "cancelled"

\* C6: a job whose status is done has progress 100.  Stated for the states
\* in which the GUI thread is inside no call and no worker stands between the
\* two assignments that settle the job (status = "done", progress = 100.0).
C6_DoneHasFullProgress ==
    \A j \in JobIds :
        (/\ jobs[j].status = "done"
         /\ uipc = "idle"
         /\ ~\E w \in Workers : wk[w].job = j /\ wk[w].pc = "settle_progress")
        => jobs[j].progress = Full

\* C7: when a job has settled (its worker has left _run_job), progress is 100
\* if and only if the status is done.
C7_FullProgressIffDone ==
    \A j \in JobIds :
        (jobs[j].status \in {"done", "error", "cancelled"} /\ Quiescent(j))
        => (jobs[j].progress = Full <=> jobs[j].status = "done")

\* Number of download calls a job with retries = r makes when every call fails
\* with a transient-block message
ExpectedCalls(r) == IF r >= 0 THEN r + 1 ELSE 1

\* Every download call worker w has started for its job has failed with a
\* transient-block message (and there was at least one)
OnlyBlockFailures(w) ==
    wk[w].job # 0 /\ wk[w].calls >= 1 /\ wk[w].blockFails = wk[w].calls /\ wk[w].fmtAt = 0

\* C8: with retries = r, no cancel_job call and only transient-block failures,
\* the worker either goes on to a further attempt, having made fewer than
\* r + 1 calls (1 for r < 0), or settles the job as error, having made
\* exactly that many.
C8_RetryBudget ==
    \A w \in Workers :
        (OnlyBlockFailures(w) /\ ncancel = 0) =>
            LET n == ExpectedCalls(jobs[wk[w].job].options.retries) IN
            \/ wk[w].pc \in {"backoff", "sleep", "attempt"} /\ wk[w].calls < n
            \/ /\ wk[w].pc \in {"handler", "handler_error", "handler_message"}
               /\ wk[w].calls = n
               /\ ~jobs[wk[w].job].cancel_event

\* C8, the case: a job with retries = 1 has failed twice with a block message
\* and is being settled as error.
C8_Witness ==
    \E w \in Workers :
        /\ OnlyBlockFailures(w) /\ ncancel = 0
        /\ jobs[wk[w].job].options.retries = 1
        /\ wk[w].calls = 2
        /\ wk[w].pc = "handler_message"
        /\ jobs[wk[w].job].status = "error"

\* The last download call (or fallback call) of worker w returned info
Succeeded(w) ==
    \/ wk[w].pc \in {"settle_cancelled", "settle_status", "settle_done", "settle_progress"}
    \/ wk[w].pc \in {"handler", "handler_cancelled", "handler_error", "handler_message"}
       /\ wk[w].exc = "TypeError"

\* Worker w is settling its job as done
SettlingDone(w) == wk[w].pc \in {"settle_status", "settle_done", "settle_progress"}

\* C9: without a cancel_job call, k <= r transient-block failures followed by
\* a successful call settle the job as done (progress 100), with exactly k
\* retry-wait log lines.
C9_BlockThenSuccessSettlesDone ==
    \A w \in Workers :
        (/\ Succeeded(w) /\ ncancel = 0
         /\ wk[w].fmtAt = 0
         /\ wk[w].blockFails = wk[w].calls - 1)
        => (SettlingDone(w) /\ wk[w].logs = wk[w].blockFails)

\* C10: without a cancel_job call, an attempt that fails with a
\* format-unavailable message and whose fallback call succeeds settles the job
\* as done: no error is surfaced.
C10_FallbackSuccessSettlesDone ==
    \A w \in Workers :
        (Succeeded(w) /\ ncancel = 0 /\ wk[w].fmtAt >= 1) => SettlingDone(w)

\* No post-success step raises for the job of worker w (no AI flag is on)
PostStepsSafe(w) == ~jobs[wk[w].job].options.ai

\* C9 and C10 restricted to jobs whose post-success steps cannot raise: the
\* retry loop and the format fallback themselves settle such a job as done.
RetryLoopSettlesDoneWhenPostStepsSafe ==
    \A w \in Workers :
        (/\ Succeeded(w) /\ ncancel = 0 /\ PostStepsSafe(w)
         /\ (wk[w].fmtAt >= 1 \/ wk[w].blockFails = wk[w].calls - 1))
        => (SettlingDone(w) /\ (wk[w].fmtAt = 0 => wk[w].logs = wk[w].blockFails))

\* C11: under any interleaving of add_job calls of several threads, the i-th
\* job of the job table has id i (ids are unique, increasing in creation
\* order, never reused).
C11_IdsAreCreationOrder ==
    \A i \in 1 .. Len(jobs) : jobs[i].job_id = i

\* C11, the case: a second job is in the table while an adder thread is still
\* inside add_job and another thread waits to enter it.
C11_Witness ==
    /\ Len(jobs) = 2
    /\ jobs[2].job_id = 2
    /\ \E a, b \in Adders : a # b /\ lock = a /\ ad[a].pc = "put" /\ ad[b].pc = "idle"
    /\ C11_IdsAreCreationOrder

\* The ids in the pending queue
PendingIds == { pending[i] : i \in 1 .. Len(pending) }

\* C12: add_job appends exactly one new job, with the next id, status queued,
\* progress 0, empty error and cleared cancel signal, and leaves every
\* existing job as it is; it appends that job's id, which is not in the queue
\* yet, once at the back of the pending queue and changes no other entry.
\* (The GUI thread's call is one step; a call of another thread appends the
\* job in one step and enqueues the id in a later one.)
C12_AddJobFrame ==
    [][ /\ Len(jobs') >= Len(jobs)
        /\ Len(jobs') > Len(jobs) =>
              /\ Len(jobs') = Len(jobs) + 1
              /\ \A i \in 1 .. Len(jobs) : jobs'[i] = jobs[i]
              /\ jobs'[Len(jobs')].job_id = Len(jobs) + 1
              /\ jobs'[Len(jobs')].status = "queued"
              /\ jobs'[Len(jobs')].progress = 0
              /\ jobs'[Len(jobs')].error = ""
              /\ ~jobs'[Len(jobs')].cancel_event
              /\ pending' \in {pending, Append(pending, Len(jobs) + 1)}
        /\ Len(pending') > Len(pending) =>
              \E k \in 1 .. Len(jobs') :
                  /\ pending' = Append(pending, k)
                  /\ k \notin PendingIds
                  /\ jobs'[k].status = "queued" /\ jobs'[k].progress = 0
                  /\ jobs'[k].error = "" /\ ~jobs'[k].cancel_event
                  /\ \A i \in 1 .. Len(jobs) : jobs'[i] = jobs[i]
      ]_vars

\* C12, the case: the second job has been appended by a thread that is about
\* to enqueue its id, while the first job is being executed and has progress.
C12_Witness ==
    /\ Len(jobs) = 2
    /\ \E a \in Adders : ad[a].pc = "put" /\ ad[a].id = 2
    /\ jobs[1].status = "running" /\ jobs[1].progress > 0
    /\ jobs[2].status = "queued" /\ jobs[2].progress = 0
    /\ pending = << >>

Settled(j) == jobs[j].status \in {"done", "error", "cancelled"}

\* C13: with a single worker and no retry or cancel action, jobs settle in
\* the order in which add_job was called for them (the order of their ids): a
\* job has left status queued only if every job added before it has settled.
C13_SingleWorkerSettlesInOrder ==
    (nworkers <= 1 /\ ncancel = 0 /\ nretry = 0) =>
        \A i, j \in JobIds : (i < j /\ jobs[j].status # "queued") => Settled(i)

\* C13, the case: two jobs were queued together and the one worker has settled
\* both, the first as error and the second as done.
C13_Witness ==
    /\ nworkers = 1 /\ ncancel = 0 /\ nretry = 0
    /\ Len(jobs) = 2
    /\ jobs[1].status = "error"
    /\ jobs[2].status = "done" /\ jobs[2].progress = Full

\* C14: start() called when a pool has already been spawned spawns no worker
\* and changes no job, no queue entry and no worker: it changes nothing of the
\* Manager's state.
C14_StartIsIdempotent ==
    [][ (start /\ nworkers > 0) =>
            UNCHANGED <<jobs, pending, nworkers, stop_event, wk>> ]_vars

\* C14, the case: start() has been called on a Manager whose pool had been
\* spawned before (and had been stopped), with a job in the table.
C14_Witness ==
    /\ restart
    /\ nworkers > 0
    /\ Len(jobs) = 1
    /\ \A w \in Workers : wk[w].pc \in {"none", "exited"}

\* max(1, c) for the newest job's concurrent_downloads c, 1 without a job
ExpectedPoolSize ==
    IF Len(jobs) = 0
    THEN 1
    ELSE IF jobs[Len(jobs)].options.concurrent_downloads <= 0
         THEN 1
         ELSE jobs[Len(jobs)].options.concurrent_downloads

C16_StartAfterStopRestartsPool ==
    restart =>
        /\ ~stop_event
        /\ \E w \in Workers : wk[w].pc \notin {"none", "exited", "dead"}

\* C19: cancel_job with an id no job has changes no job (no field, no cancel
\* signal) and no queue entry, and returns at once: it does not reach the
\* assignment of "cancelling" and the notification after it.
C19_CancelUnknownIdIsNoOp ==
    [][ \A id \in 1 .. MaxJobs :
            (id \notin JobIds /\ cancel_job(id)) =>
                (jobs' = jobs /\ pending' = pending /\ uipc' = "idle" /\ uijob' = uijob) ]_vars

\* C19, the case: cancel_job has been called, and the one job, which is being
\* executed, has no cancel signal (there is no retry action that clears it):
\* the call named an id no job has.
C19_Witness ==
    /\ ncancel = 1 /\ uipc = "idle"
    /\ Len(jobs) = 1
    /\ jobs[1].status = "running"
    /\ ~jobs[1].cancel_event /\ ~jobs[1].cancelQ /\ ~jobs[1].cancelR

C18_CancelJobEffect ==
    [][ /\ (uipc = "idle" /\ uipc' = "cancel_read") => jobs'[uijob'].cancel_event
        /\ (uipc \in {"cancel_read", "cancel_write"} /\ uipc' = "idle") =>
              IF jobs[uijob].cancelQ \/ jobs[uijob].cancelR
              THEN jobs'[uijob].status \in {"cancelling", "cancelled"}
              ELSE uipc = "cancel_read" /\ jobs'[uijob].status = jobs[uijob].status
      ]_vars

\* C20: the list jobs() returns is a copy taken at the call: a job added
\* afterwards does not change it; and a caller holding the list cannot change
\* the status, progress, error or cancel signal the Manager holds for a job by
\* writing to the list's elements (here: the writes of _retry_all_errors,
\* which are no Manager operation).
C20_JobsSnapshotIsolated ==
    [][ /\ Len(jobs') > Len(jobs) => ra'.snap = ra.snap
        /\ (ra_status \/ ra_reset \/ ra_clear) =>
              \A j \in JobIds :
                  /\ jobs'[j].status = jobs[j].status
                  /\ jobs'[j].progress = jobs[j].progress
                  /\ jobs'[j].error = jobs[j].error
                  /\ jobs'[j].cancel_event = jobs[j].cancel_event
      ]_vars

\* C21: an id gets a further queue entry only by the retry action on a job
\* that has settled as error: the retry action begins only on a job with
\* status error, and no id is ever in the pending queue twice.
C21_RequeueOnlyAfterError ==
    [][ /\ \A id \in 1 .. MaxJobs : retry_selected(id) => jobs[id].status = "error"
        /\ \A i, k \in 1 .. Len(pending') : i # k => pending'[i] # pending'[k]
      ]_vars

\* C22: done is absorbing: no step changes the status of a job whose status
\* is done.
C22_DoneIsAbsorbing ==
    [][ \A j \in JobIds : jobs[j].status = "done" => jobs'[j].status = "done" ]_vars

\* C23: a job that has entered status running reaches done, error or
\* cancelled, for every option value.  As a property of states: while a job's
\* status is running, a worker thread is inside _run_job for it (and goes on to
\* a settling assignment).
C23_RunningJobIsDriven ==
    \A j \in JobIds :
        jobs[j].status = "running" =>
            \E w \in Workers : wk[w].job = j /\ wk[w].pc \in RunPcs

\* C24: between start() and stop() no worker loop ends: while the stop signal
\* is clear, every thread that start() spawned is inside _worker_loop.
C24_NoWorkerEndsBeforeStop ==
    ~stop_event => \A w \in 1 .. nworkers : wk[w].pc \notin {"dead", "exited"}

\* C25: a failure of a post-success step never makes a job whose extraction
\* succeeded settle as error: a worker whose download call (or fallback call)
\* returned info goes on, with the cancel signal clear, to the settling
\* assignments and not to _run_job's except clause, and no job's error is the
\* message of a post-success step.
C25_PostStepFailureKeepsDone ==
    /\ \A w \in Workers :
          (wk[w].job # 0 /\ Succeeded(w) /\ ~jobs[wk[w].job].cancel_event) =>
              /\ wk[w].pc \in {"settle_status", "settle_done", "settle_progress"}
              /\ jobs[wk[w].job].status # "error"
    /\ \A j \in JobIds : jobs[j].error # "TypeError"

\* The GUI thread is inside no call and no worker stands between two
\* assignments to job j that belong together (status and error in the except
\* clause, status and the resets at the start of _run_job, status and progress
\* when settling as done)
BetweenWrites(j) ==
    \/ uipc # "idle"
    \/ \E w \in Workers :
          wk[w].job = j /\ wk[w].pc \in {"run_reset", "handler_message", "settle_progress"}

\* C26: a job's error is non-empty only if its status is error (a cancelled,
\* cancelling, queued, running or done job has an empty error), in every state
\* that is not between two assignments that belong together.
C26_ErrorOnlyWithStatusError ==
    \A j \in JobIds :
        (jobs[j].error # "" /\ ~BetweenWrites(j)) => jobs[j].status = "error"

\* C27: while a job's status is running its progress never decreases from one
\* state to the next, whatever callbacks the attempts and the fallback call of
\* the execution deliver.
C27_ProgressMonotoneWhileRunning ==
    [][ \A j \in JobIds :
            (jobs[j].status = "running" /\ jobs'[j].status = "running")
                => jobs'[j].progress >= jobs[j].progress ]_vars

\* C29: every job's progress lies in [0, 100], for every report of the
\* collaborator.
C29_ProgressInRange ==
    \A j \in JobIds : jobs[j].progress >= 0 /\ jobs[j].progress <= 100 * Unit

\* C29, the case: the first callback of the first call is a "downloading"
\* callback (it has set speed) and the progress stands at 100: it reported
\* more than 100 percent, or a playlist index above the count.
C29_Witness ==
    \E w \in Workers :
        /\ wk[w].pc = "dl" /\ wk[w].calls = 1 /\ wk[w].ticks = 1
        /\ jobs[wk[w].job].speed = "last"
        /\ jobs[wk[w].job].progress = 100 * Unit

\* C30: a "downloading" callback with playlist index i > 0, count n > 0 and
\* item percent p sets the progress to ((i - 1) + p/100) / n * 100 limited to
\* [0, 100], and to p limited to [0, 100] when i or n is absent or 0; n = 4,
\* i = 2, p = 50 gives 37.5.
C30_DownloadingProgressFormula ==
    [][ \A w \in Workers : \A d \in PlaylistTicks :
            (d.status = "downloading" /\ progress_hook(w, d) /\ ~jobs[wk[w].job].cancel_event) =>
                LET v == IF d.pi > 0 /\ d.pc > 0
                         THEN ((d.pi - 1) * 100 * Unit + d.pct) \div d.pc
                         ELSE d.pct
                    r == jobs'[wk[w].job].progress
                IN /\ r = (IF v < 0 THEN 0 ELSE IF v > 100 * Unit THEN 100 * Unit ELSE v)
                   /\ (d.pi = 2 /\ d.pc = 4 /\ d.pct = 50 * Unit) => (2 * r = 75 * Unit)
      ]_vars

\* C30, the case: the callback for item 2 of 4 at 50 percent has set the
\* progress to 37.5.
C30_Witness ==
    \E w \in Workers :
        /\ wk[w].pc = "dl" /\ wk[w].calls = 1 /\ wk[w].ticks = 1
        /\ jobs[wk[w].job].speed = "last"
        /\ 2 * jobs[wk[w].job].progress = 75 * Unit

\* C28: speed and eta are empty whenever a job (re)starts: when _run_job has
\* set status running and made its resets (the worker is about to begin the
\* first attempt), and when a retry action (of the selected job, or of all
\* jobs with status error) has made its resets and is about to enqueue the id.
C28_SpeedEtaClearedOnRestart ==
    /\ \A w \in Workers :
          (wk[w].pc = "attempt" /\ wk[w].calls = 0) =>
              (jobs[wk[w].job].speed = "" /\ jobs[wk[w].job].eta = "")
    /\ uipc = "retry_put" => (jobs[uijob].speed = "" /\ jobs[uijob].eta = "")
    /\ uipc = "ra_put" =>
          (jobs[ra.snap[ra.idx]].speed = "" /\ jobs[ra.snap[ra.idx]].eta = "")

\* C31: whenever a worker sleeps before a further attempt, the delay it sleeps
\* is at most 60 seconds and at least the smaller of 60 seconds and the base
\* 2^(attempt-1), and that base is not below the base of the attempt before.
C31_BackoffMonotoneAndCapped ==
    \A w \in Workers :
        wk[w].pc = "sleep" =>
            /\ wk[w].delay <= 60 * Tenth
            /\ wk[w].delay >= Min(60 * Tenth, BackoffBase(wk[w].attempt))
            /\ wk[w].attempt >= 2 =>
                  BackoffBase(wk[w].attempt) >= BackoffBase(wk[w].attempt - 1)

\* C31, the case: the sleep after the seventh failed attempt, whose base of 64
\* seconds is above the cap.
C31_Witness ==
    \E w \in Workers :
        /\ wk[w].pc = "sleep"
        /\ wk[w].attempt = 7
        /\ BackoffBase(7) > 60 * Tenth
        /\ wk[w].delay = 60 * Tenth

HandlerPcs == {"handler", "handler_error", "handler_message"}

\* C32: with no cancel_job call and no retry action, once a call of worker w
\* has failed with a message that is neither format-unavailable nor a block,
\* the worker starts no further call (it is in the outer except clause, with
\* the number of calls unchanged) until it settles the job with status error
\* and that message as the error, whatever the job's retries value.
C32_TerminalFailureSettlesError ==
    [][\A w \in Workers :
          (ncancel' = 0 /\ nretry' = 0) =>
              /\ (wk'[w].exc = "other") =>
                    /\ wk'[w].pc \in HandlerPcs
                    /\ wk[w].pc \in {"dl", "fb"} \cup HandlerPcs
                    /\ wk'[w].calls = wk[w].calls
              /\ (wk[w].exc = "other" /\ wk'[w].exc # "other") =>
                    /\ wk[w].pc = "handler_message" /\ wk'[w].pc = "top"
                    /\ jobs'[wk[w].job].status = "error"
                    /\ jobs'[wk[w].job].error = "other"]_vars

\* C32, the case: a job with retries = 1 has settled as error with the raw
\* message after a single call, no cancel_job call and no retry action made.
C32_Witness ==
    /\ ncancel = 0 /\ nretry = 0
    /\ Len(jobs) = 1
    /\ jobs[1].options.retries = 1
    /\ jobs[1].status = "error"
    /\ jobs[1].error = "other"
    /\ \A w \in Workers : wk[w].job = 0

\* C33: with no cancel_job call and no retry action, a worker that is storing
\* status error for a failure with a block message has used its last attempt
\* (attempt = max_attempts), and no job's error is ever the raw block message.
C33_BlockErrorOnlyAfterBudget ==
    /\ \A w \in Workers :
          ( /\ ncancel = 0 /\ nretry = 0
            /\ wk[w].pc \in {"handler_error", "handler_message"}
            /\ _is_block_error(wk[w].exc) )
          => wk[w].attempt = max_attempts(jobs[wk[w].job].options.retries)
    /\ \A j \in JobIds : ~_is_block_error(jobs[j].error)

\* The step is one of worker w (the GUI thread and the adder threads stand
\* still) and w is inside _run_job before it
RunJobStep(w) ==
    /\ wk[w].pc \in RunPcs \cup {"run"}
    /\ wk'[w] # wk[w]
    /\ uipc' = uipc
    /\ ad' = ad

\* C34: a step of a worker inside _run_job (the retry attempts and the format
\* fallback included) leaves the pending queue, the number of jobs and every
\* job but the one it executes unchanged.
C34_RunJobFrame ==
    [][\A w \in Workers :
          RunJobStep(w) =>
              /\ pending' = pending
              /\ Len(jobs') = Len(jobs)
              /\ \A j \in JobIds : j # wk[w].job => jobs'[j] = jobs[j]]_vars

\* C34, the case: with a second job waiting in the queue, the worker is in
\* the fallback call of its second attempt.
C34_Witness ==
    \E w \in Workers :
        /\ wk[w].pc = "fb"
        /\ wk[w].attempt = 2
        /\ Len(jobs) = 2
        /\ pending = <<2>>
        /\ wk[w].job = 1

\* C35: when a retry action completes for job j (the step that puts the id),
\* the id is appended at the back of the pending queue, the queue held no
\* entry of j before (so every id queued before it is dequeued before j), and
\* j has status queued, progress 0, an empty error and a clear cancel signal.
C35_RetryActionEffect ==
    [][/\ (uipc = "retry_put" /\ uipc' = "idle") =>
             /\ pending' = Append(pending, uijob)
             /\ ~Queued(uijob)
             /\ jobs'[uijob].status = "queued"
             /\ jobs'[uijob].progress = 0
             /\ jobs'[uijob].error = ""
             /\ ~jobs'[uijob].cancel_event
       /\ (uipc = "ra_put" /\ uipc' = "ra_test") =>
             LET j == ra.snap[ra.idx] IN
             /\ pending' = Append(pending, j)
             /\ ~Queued(j)
             /\ jobs'[j].status = "queued"
             /\ jobs'[j].progress = 0
             /\ jobs'[j].error = ""
             /\ ~jobs'[j].cancel_event]_vars

\* C36: a job with status cancelling still has a thread that will settle it:
\* a worker holds it, or its id is in the pending queue.  (Where this fails,
\* no step of any worker changes the job again: it stays cancelling in every
\* continuation without a retry action, however the threads are scheduled.)
C36_CancellingIsSettled ==
    \A j \in JobIds :
        (jobs[j].status = "cancelling" /\ uipc = "idle") => (Held(j) \/ Queued(j))

\* The jobs some worker is executing, and the jobs whose status is running
ExecutingJobs == { wk[w].job : w \in { v \in Workers : Executing(v) } }

RunningJobs == { j \in JobIds : jobs[j].status = "running" }

\* C37: after every step, the jobs being executed (and the jobs with status
\* running) are no more than the workers start() spawned; a worker dequeues
\* an id only while it holds no job; and, with no cancel_job call, when a
\* worker leaves _run_job the job it held has status done, error or cancelled.
C37_OneJobPerWorker ==
    [][/\ Cardinality(ExecutingJobs') <= nworkers'
       /\ Cardinality(RunningJobs') <= nworkers'
       /\ \A w \in Workers :
             /\ (wk[w].pc = "get" /\ wk'[w].pc = "fetched") => wk[w].job = 0
             /\ (Executing(w) /\ ~Executing(w)' /\ ncancel' = 0) =>
                   /\ wk'[w].pc = "top"
                   /\ jobs'[wk[w].job].status \in {"done", "error", "cancelled"}]_vars

\* C37, the case: the only worker has settled job 1 (retries = 1) and is
\* inside the download call of job 2.
C37_Witness ==
    \E w \in Workers :
        /\ nworkers = 1
        /\ ncancel = 0
        /\ Len(jobs) = 2
        /\ Settled(1)
        /\ jobs[1].options.retries = 1
        /\ wk[w].job = 2
        /\ wk[w].pc = "dl"
        /\ jobs[2].status = "running"

\* C38: no step shortens the job table, and for every id a job of the table
\* carries, get_job finds after the step the job it found before it: the same
\* place in the table, with the same job_id and options.
C38_JobTableOnlyGrows ==
    [][/\ Len(jobs') >= Len(jobs)
       /\ \A i \in JobIds :
             LET id == jobs[i].job_id IN
             /\ get_job(jobs, id) # 0
             /\ get_job(jobs', id) = get_job(jobs, id)
             /\ jobs'[get_job(jobs', id)].job_id = id
             /\ jobs'[get_job(jobs', id)].options = jobs[get_job(jobs, id)].options]_vars

\* C38, the case: the table holds two jobs, the first settled by the worker,
\* and get_job finds each by its id.
C38_Witness ==
    /\ Len(jobs) = 2
    /\ Settled(1)
    /\ get_job(jobs, 1) = 1
    /\ get_job(jobs, 2) = 2
    /\ jobs[1].options # jobs[2].options

\* C39: a step in which a worker starts a download call (a further attempt
\* or the format fallback) is taken only while the cancel signal of its job
\* is not set.
C39_NoCallAfterCancelSignal ==
    [][\A w \in Workers :
          (wk[w].job # 0 /\ wk'[w].job = wk[w].job /\ wk'[w].calls > wk[w].calls) =>
              ~jobs[wk[w].job].cancel_event]_vars

\* C40: with start() called by several threads at once on a Manager without
\* workers, the worker threads started in total are never more than
\* max(1, c), c the concurrent_downloads of the newest job (1 without a job).
C40_ConcurrentStartsOnePool ==
    (\E c \in Starters : st[c].pc # "idle") => Spawned <= PoolSize

=============================================================================
